---- MODULE Spec2Model ----
(***************************************************************************)
(* A model of the plotting routines of arviz:                              *)
(*   plot_dist        (src/arviz/plots/distplot.py)                        *)
(*   _empirical_cdf   (src/arviz/plots/ppcplot.py)                         *)
(*   plot_ppc         (src/arviz/plots/ppcplot.py)                         *)
(*   plot_joint       (src/arviz/plots/jointplot.py)                       *)
(*   _plot_trace_bokeh, _plot_chains_bokeh                                 *)
(*                    (src/arviz/plots/backends/bokeh/bokeh_traceplot.py)  *)
(* Each routine is one action that models the whole call; the state keeps  *)
(* the objects a call can touch (the caller's dictionaries, the global     *)
(* random generator) and a record of the last call and its outcome.        *)
(***************************************************************************)
EXTENDS Integers, Sequences, FiniteSets, TLC

VARIABLES
    dist_args,   \* plot_dist: the arguments the caller built
    caller_hist_kwargs, \* plot_dist: the caller's hist_kwargs object
    dist_call,   \* plot_dist: the outcome of the call
    cdf_orig,    \* _empirical_cdf: the sample as the caller first built it
    cdf_data,    \* _empirical_cdf: the caller's 1-D array object
    cdf_out,     \* _empirical_cdf: the last call, its argument and its result
    cdf_first,   \* _empirical_cdf: the result of the first call
    ppc_data,    \* plot_ppc: the InferenceData object of the caller
    ppc_args,    \* plot_ppc: the arguments the caller built
    rng_state,   \* the state of numpy's global random generator
    ppc_between, \* plot_ppc: random draws were made since the last call
    ppc_calls,   \* plot_ppc: the number of calls made
    ppc_call,    \* plot_ppc: the outcome of the last call
    caller_coords, \* plot_ppc: the caller's coords object
    caller_animation_kwargs, \* plot_ppc: the caller's animation_kwargs object
    anim_cursor, \* the animation: the number of frames drawn in this run
    anim_lines,  \* the animation: the replicate that each panel's line shows
    joint_args,  \* plot_joint: the arguments the caller built
    caller_marginal_kwargs, \* plot_joint: the caller's marginal_kwargs object
    caller_ax,   \* plot_joint: what was drawn on each axes the caller passed
    joint_call,  \* plot_joint: the outcome of the call
    trace_args,  \* _plot_trace_bokeh: the arguments the caller built
    trace_rc,    \* _plot_trace_bokeh: rcParams["plot.max_subplots"]
    caller_trace_kwargs, \* _plot_trace_bokeh: the caller's trace_kwargs object
    trace_call   \* _plot_trace_bokeh: the outcome of the call

dist_vars == <<dist_args, caller_hist_kwargs, dist_call>>

cdf_vars == <<cdf_orig, cdf_data, cdf_out, cdf_first>>

ppc_vars ==
    <<ppc_data, ppc_args, rng_state, ppc_between, ppc_calls, ppc_call,
      caller_coords, caller_animation_kwargs, anim_cursor, anim_lines>>

joint_vars == <<joint_args, caller_marginal_kwargs, caller_ax, joint_call>>

trace_vars == <<trace_args, trace_rc, caller_trace_kwargs, trace_call>>

vars == <<dist_vars, cdf_vars, ppc_vars, joint_vars, trace_vars>>

(***************************************************************************)
(* Python strings are sequences of characters, so that str.lower() is a    *)
(* computation and not a table of names.                                   *)
(***************************************************************************)
UpperChars == <<"A","B","C","D","E","F","G","H","I","J","K","L","M",
                "N","O","P","Q","R","S","T","U","V","W","X","Y","Z">>

LowerChars == <<"a","b","c","d","e","f","g","h","i","j","k","l","m",
                "n","o","p","q","r","s","t","u","v","w","x","y","z">>

LowerChar(c) ==
    IF \E i \in DOMAIN UpperChars : UpperChars[i] = c
    THEN LowerChars[CHOOSE i \in DOMAIN UpperChars : UpperChars[i] = c]
    ELSE c

\* str.lower()
lower(s) == [i \in DOMAIN s |-> LowerChar(s[i])]

\* The None object where a string is expected (no string is equal to it).
NoneStr == <<"<None>">>

s_auto == <<"a","u","t","o">>
s_kde == <<"k","d","e">>
s_hist == <<"h","i","s","t">>
s_KDE == <<"K","D","E">>
s_Hist == <<"H","i","s","t">>
s_violin == <<"v","i","o","l","i","n">>
s_mpl == <<"m","p","l">>
s_MPL == <<"M","P","L">>
s_matplotlib == <<"m","a","t","p","l","o","t","l","i","b">>
s_Matplotlib == <<"M","a","t","p","l","o","t","l","i","b">>
s_bokeh == <<"b","o","k","e","h">>
s_Bokeh == <<"B","o","k","e","h">>
s_BOKEH == <<"B","O","K","E","H">>
s_plotly == <<"p","l","o","t","l","y">>
s_cumulative == <<"c","u","m","u","l","a","t","i","v","e">>
s_scatter == <<"s","c","a","t","t","e","r">>
s_Scatter == <<"S","c","a","t","t","e","r">>
s_hexbin == <<"h","e","x","b","i","n">>

(***************************************************************************)
(* Python dictionaries are functions from keys to values; an argument that *)
(* may be None is a record that says whether it is None.                   *)
(***************************************************************************)
EmptyDict == [k \in {} |-> ""]

NoneDict == [isNone |-> TRUE, d |-> EmptyDict]

SomeDict(d) == [isNone |-> FALSE, d |-> d]

\* dict.setdefault(k, v)
setdefault(d, k, v) == IF k \in DOMAIN d THEN d ELSE d @@ (k :> v)

PyBool(b) == IF b THEN "True" ELSE "False"

(***************************************************************************)
(* The state of a routine that the specification at hand does not call.    *)
(***************************************************************************)
\* The outcome of a plot_dist call that has not been made.
NoDistCall ==
    [called |-> FALSE, exc |-> "none", kind_passed |-> NoneStr,
     hk_passed |-> NoneDict, rendered |-> "none"]

\* The outcome of an _empirical_cdf call that has not been made.
NoCdfCall ==
    [called |-> FALSE, arg |-> <<>>, arg_after |-> <<>>, x |-> <<>>, y |-> <<>>]

NoCdfResult == [called |-> FALSE, x |-> <<>>, y |-> <<>>]

\* The outcome of a plot_ppc call that has not been made.
NoPpcCall ==
    [called |-> FALSE, exc |-> "none", why |-> "", num_pp_samples |-> 0,
     pp_sample_ix |-> <<>>, rows |-> <<>>, panels |-> 0, drawn |-> 0,
     draws_before |-> FALSE, selected |-> <<>>, axes |-> <<>>,
     animation |-> [made |-> FALSE, frames |-> <<>>, panel |-> 0, blit |-> ""],
     obs_plotters |-> <<>>, pp_plotters |-> <<>>]

DistIdle ==
    /\ dist_args = [kind |-> s_auto, dtype |-> "f", backend |-> NoneStr,
                    bokeh_ok |-> TRUE, rotated |-> FALSE, cumulative |-> FALSE,
                    hist_kwargs |-> NoneDict]
    /\ caller_hist_kwargs = NoneDict
    /\ dist_call = NoDistCall

CdfIdle ==
    /\ cdf_orig = <<>>
    /\ cdf_data = <<>>
    /\ cdf_out = NoCdfCall
    /\ cdf_first = NoCdfResult

PpcIdle ==
    /\ ppc_data = [has_groups |-> TRUE, chains |-> 1, draws |-> 1, nvars |-> 1,
                   vars |-> <<"f">>]
    /\ ppc_args = [kind |-> s_kde, animated |-> FALSE,
                   num_pp_samples |-> [tag |-> "none", v |-> 0],
                   random_seed |-> [isNone |-> TRUE, v |-> 0],
                   jitter |-> [isNone |-> TRUE, v |-> 0],
                   coords |-> [isNone |-> TRUE, key |-> "", v |-> <<>>],
                   animation_kwargs |-> NoneDict,
                   ax |-> [isNone |-> TRUE, len |-> 0, same_fig |-> TRUE],
                   mean |-> TRUE, platform |-> "Linux",
                   var_names |-> [isNone |-> TRUE, v |-> <<>>],
                   data_pairs |-> NoneDict,
                   flatten |-> [isNone |-> TRUE, v |-> {}],
                   flatten_pp |-> [isNone |-> TRUE, v |-> {}]]
    /\ rng_state = 0
    /\ ppc_between = FALSE
    /\ ppc_calls = 0
    /\ ppc_call = NoPpcCall
    /\ caller_coords = [isNone |-> TRUE, key |-> "", v |-> <<>>]
    /\ caller_animation_kwargs = NoneDict
    /\ anim_cursor = -1
    /\ anim_lines = <<>>

\* The outcome of a plot_joint call that has not been made.
NoJointCall ==
    [called |-> FALSE, exc |-> "none", why |-> "", nplotters |-> 0,
     fig_created |-> FALSE, axes |-> <<>>]

JointIdle ==
    /\ joint_args = [kind |-> s_scatter,
                     var_names |-> [isNone |-> TRUE, v |-> <<>>],
                     coords |-> [isNone |-> TRUE, v |-> <<>>],
                     ax |-> [isNone |-> TRUE, len |-> 0],
                     marginal_kwargs |-> NoneDict]
    /\ caller_marginal_kwargs = NoneDict
    /\ caller_ax = <<>>
    /\ joint_call = NoJointCall

\* The outcome of a _plot_trace_bokeh call that has not been made.
NoTraceCall ==
    [called |-> FALSE, exc |-> "none", why |-> "", warned |-> FALSE,
     all_plotters |-> <<>>, plotters |-> <<>>, ncolors |-> 0, panels |-> <<>>,
     draw_name |-> "", cds_data |-> <<>>]

TraceIdle ==
    /\ trace_args = [var_names |-> [isNone |-> TRUE, v |-> <<>>],
                     coords |-> [isNone |-> TRUE, v |-> <<>>],
                     chains |-> 1, compact |-> FALSE, combined |-> FALSE,
                     legend |-> FALSE, trace_kwargs |-> NoneDict]
    /\ trace_rc = [tag |-> "none", v |-> 0]
    /\ caller_trace_kwargs = NoneDict
    /\ trace_call = NoTraceCall

(***************************************************************************)
(* numpy's global random generator.  Its state is a number below RngMod;   *)
(* np.random.seed sets it from the seed alone, and every draw reads it and *)
(* steps it.                                                               *)
(***************************************************************************)
RngMod == 4

\* The state np.random.seed(seed) leaves.
SeedState(seed) == (7 * seed + 3) % RngMod

\* The state after one draw.
RngStep(state) == (state + 1) % RngMod

\* The sequence s without its j-th element.
RemoveAt(s, j) == [i \in 1..(Len(s) - 1) |-> IF i < j THEN s[i] ELSE s[i + 1]]

\* np.random.permutation: the shuffle of pool that the generator state
\* `code` decides (each element in turn is drawn from those left).
RECURSIVE Shuffle(_, _)
Shuffle(code, pool) ==
    IF pool = <<>> THEN <<>>
    ELSE LET m == Len(pool)
             j == (code % m) + 1
         IN  <<pool[j]>> \o Shuffle(code \div m, RemoveAt(pool, j))

\* A mutant of np_random_choice: np.random.choice(n, size, replace=True).
np_random_choice_replace(state, n, size) ==
    [ok |-> TRUE, ix |-> [i \in 1..size |-> (state + 2 * i) % n],
     state |-> RngStep(state)]

\* np.random.choice(n, size=size, replace=False): the first `size` elements
\* of a shuffle of 0..n-1; a ValueError when size is larger than n.
np_random_choice(state, n, size) ==
    IF size > n
    THEN [ok |-> FALSE, ix |-> <<>>, state |-> state]
    ELSE [ok |-> TRUE,
          ix |-> SubSeq(Shuffle(state, [i \in 1..n |-> i - 1]), 1, size),
          state |-> RngStep(state)]

\* The state after `count` draws of np.random.uniform.
RECURSIVE RngDraws(_, _)
RngDraws(state, count) ==
    IF count = 0 THEN state ELSE RngDraws(RngStep(state), count - 1)

(***************************************************************************)
(* _empirical_cdf                                                          *)
(***************************************************************************)
\* The longest sample and the largest sample value of the model.
MaxLen == 3

MaxVal == 3

CdfValues == 1..MaxVal

CdfSamples == UNION {[1..n -> CdfValues] : n \in 0..MaxLen}

\* One step of the sort: v put in its place in the sorted sequence s.
RECURSIVE SortedInsert(_, _)
SortedInsert(s, v) ==
    IF s = <<>> THEN <<v>>
    ELSE IF v <= Head(s) THEN <<v>> \o s
    ELSE <<Head(s)>> \o SortedInsert(Tail(s), v)

\* A mutant of np_sort: the array is returned as it is.
np_sort_none(data) == data

\* A mutant of np_sort: np.unique, which sorts and drops the repeated values.
RECURSIVE np_sort_unique(_)
np_sort_unique(data) ==
    IF data = <<>> THEN <<>>
    ELSE LET rest == np_sort_unique(Tail(data))
         IN  IF \E i \in DOMAIN rest : rest[i] = Head(data)
             THEN rest
             ELSE SortedInsert(rest, Head(data))

\* np.sort(data): a sorted copy of the array.
RECURSIVE np_sort(_)
np_sort(data) ==
    IF data = <<>> THEN <<>>
    ELSE SortedInsert(np_sort(Tail(data)), Head(data))

\* A mutant of np_linspace01: np.linspace(0, 1, num, endpoint=False).
np_linspace01_open(num) == [i \in 1..num |-> <<i - 1, num>>]

\* np.linspace(0, 1, num): num evenly spaced numbers, each a fraction
\* <<numerator, denominator>>; the step is 1/(num-1), and a single number is
\* the start.
np_linspace01(num) ==
    [i \in 1..num |-> IF num = 1 THEN <<0, 1>> ELSE <<i - 1, num - 1>>]

\* ppcplot.py line 613: the pair (x, y) that _empirical_cdf returns, and the
\* argument array as the call leaves it.
empirical_cdf(data) ==
    [x |-> np_sort(data), y |-> np_linspace01(Len(data)), data_after |-> data]

\* A call _empirical_cdf(cdf_data); arg is the array before the call and
\* arg_after the same array when the call returns.
EmpiricalCdf ==
    LET r == empirical_cdf(cdf_data)
    IN  /\ cdf_out' = [called |-> TRUE, arg |-> cdf_data,
                       arg_after |-> r.data_after, x |-> r.x, y |-> r.y]
        /\ cdf_data' = r.data_after
        /\ cdf_first' = IF cdf_first.called THEN cdf_first
                        ELSE [called |-> TRUE, x |-> r.x, y |-> r.y]
        /\ UNCHANGED <<cdf_orig, dist_vars, ppc_vars, joint_vars, trace_vars>>

\* The caller reorders its array between two calls (two neighbours swapped).
CdfPermute ==
    /\ cdf_first.called
    /\ \E i \in 1..(Len(cdf_data) - 1) :
          cdf_data' = [cdf_data EXCEPT ![i] = cdf_data[i + 1],
                                       ![i + 1] = cdf_data[i]]
    /\ UNCHANGED <<cdf_orig, cdf_out, cdf_first, dist_vars, ppc_vars, joint_vars, trace_vars>>

\* The caller takes the sorted values a call returned as its next argument.
CdfResort ==
    /\ cdf_out.called
    /\ cdf_data' = cdf_out.x
    /\ UNCHANGED <<cdf_orig, cdf_out, cdf_first, dist_vars, ppc_vars, joint_vars, trace_vars>>

\* The caller builds a sample.
InitCdf ==
    /\ cdf_orig \in CdfSamples
    /\ cdf_data = cdf_orig
    /\ cdf_out = NoCdfCall
    /\ cdf_first = NoCdfResult
    /\ DistIdle
    /\ PpcIdle
    /\ JointIdle
    /\ TraceIdle

NextCdf == EmpiricalCdf \/ CdfPermute \/ CdfResort

SpecCdf == InitCdf /\ [][NextCdf]_vars

(***************************************************************************)
(* plot_dist                                                               *)
(***************************************************************************)
\* The kind letters of numpy element types: signed and unsigned integers,
\* floats, booleans.
DtypeKinds == {"i", "u", "f", "b"}

\* The element types that hold integers.
IntegralDtypeKinds == {"i", "u"}

DistKinds == {s_auto, s_kde, s_hist, s_KDE, s_Hist, s_violin}

DistBackends == {NoneStr, s_mpl, s_MPL, s_matplotlib, s_Matplotlib,
                 s_bokeh, s_Bokeh, s_BOKEH, s_plotly}

\* The hist_kwargs a caller passes: None, or a dictionary of its own.
DistHistKwargs ==
    { NoneDict,
      SomeDict(EmptyDict),
      SomeDict("bins" :> "10"),
      SomeDict(("density" :> "False") @@ ("orientation" :> "horizontal")) }

\* distplot.py line 87
KindValid_any(kind) == TRUE

KindValid(kind) == kind \in {s_auto, s_kde, s_hist}

\* distplot.py lines 90-91
ResolveKind(kind, dtype) ==
    IF kind = s_auto
    THEN (IF dtype = "i" THEN s_hist ELSE s_kde)
    ELSE kind

\* distplot.py lines 93-108: the defaults written into hist_kwargs
HistDefaults(d, cumulative, rotated) ==
    LET d1 == setdefault(d, "bins", "get_bins(values)")
        d2 == setdefault(d1, "cumulative", PyBool(cumulative))
        d3 == setdefault(d2, "color", "None")
        d4 == setdefault(d3, "label", "None")
        d5 == setdefault(d4, "rwidth", "0.9")
        d6 == setdefault(d5, "align", "left")
        d7 == setdefault(d6, "density", "True")
    IN  IF rotated
        THEN setdefault(d7, "orientation", "horizontal")
        ELSE setdefault(d7, "orientation", "vertical")

\* distplot.py lines 134-151: which branch of the backend dispatch is taken
BackendBranch(backend) ==
    IF backend = NoneStr \/ lower(backend) \in {s_mpl, s_matplotlib}
    THEN "mpl"
    ELSE IF backend = s_bokeh THEN "bokeh" ELSE "unknown"

\* The whole of plot_dist, as the pair <<outcome, the caller's hist_kwargs
\* object after the call>>.  hk is the hist_kwargs argument; kind_passed and
\* hk_passed are what the renderer receives in dist_plot_args, and rendered
\* is the renderer that was invoked.
plot_dist(kind, dtype, backend, bokeh_ok, rotated, cumulative, hk) ==
    LET failed(e, hk_now) ==
            <<[called |-> TRUE, exc |-> e, kind_passed |-> NoneStr,
               hk_passed |-> NoneDict, rendered |-> "none"], hk_now>>
        drawn(by, k, hk_obj, hk_now) ==
            <<[called |-> TRUE, exc |-> "none", kind_passed |-> k,
               hk_passed |-> hk_obj, rendered |-> by], hk_now>>
    IN  IF ~KindValid(kind)
        THEN failed("TypeError", hk)
        ELSE
        LET k == ResolveKind(kind, dtype)
            hk_obj == IF k = s_hist
                      THEN SomeDict(HistDefaults(hk.d, cumulative, rotated))
                      ELSE hk
            \* a dictionary created inside the call is not the caller's
            hk_now == IF hk.isNone THEN hk ELSE hk_obj
            branch == BackendBranch(backend)
        IN  CASE branch = "mpl" -> drawn("mpl", k, hk_obj, hk_now)
              [] branch = "bokeh" /\ bokeh_ok -> drawn("bokeh", k, hk_obj, hk_now)
              [] branch = "bokeh" /\ ~bokeh_ok -> failed("ImportError", hk_now)
              [] OTHER -> failed("NotImplementedError", hk_now)

PlotDist ==
    /\ ~dist_call.called
    /\ LET r == plot_dist(dist_args.kind, dist_args.dtype, dist_args.backend,
                          dist_args.bokeh_ok, dist_args.rotated,
                          dist_args.cumulative, dist_args.hist_kwargs)
       IN  /\ dist_call' = r[1]
           /\ caller_hist_kwargs' = r[2]
    /\ UNCHANGED <<dist_args, cdf_vars, ppc_vars, joint_vars, trace_vars>>

\* The caller builds the arguments of one plot_dist call.
InitDist ==
    /\ dist_args \in [kind : DistKinds, dtype : DtypeKinds,
                      backend : DistBackends, bokeh_ok : BOOLEAN,
                      rotated : BOOLEAN, cumulative : BOOLEAN,
                      hist_kwargs : DistHistKwargs]
    /\ caller_hist_kwargs = dist_args.hist_kwargs
    /\ dist_call = NoDistCall
    /\ CdfIdle
    /\ PpcIdle
    /\ JointIdle
    /\ TraceIdle

NextDist == PlotDist

SpecDist == InitDist /\ [][NextDist]_vars

(***************************************************************************)
(* The labelled data sets.  In the data set of the joint and trace plots   *)
(* the variable theta has the dimension school besides chain and draw, the *)
(* other variables have chain and draw only; every variable of the data    *)
(* set of plot_ppc has the dimension school.                               *)
(***************************************************************************)
DataVars == <<"mu", "tau", "theta">>

SchoolLabels == <<"A", "B", "C">>

\* The dimensions of a variable other than chain and draw.
VarDims(var) ==
    IF var \in {"theta", "y1", "y2", "y1_hat", "y2_hat"}
    THEN <<"school">>
    ELSE <<>>

\* get_coords(data, coords): the labels of the school dimension that the
\* selection keeps, in the stored order.
get_coords(coords) ==
    IF coords.isNone
    THEN SchoolLabels
    ELSE SelectSeq(SchoolLabels, LAMBDA l : \E i \in DOMAIN coords.v : coords.v[i] = l)

\* _var_names(var_names, data) followed by the default of xarray_var_iter:
\* None stands for all the variables of the data set.
VarNames(var_names) == IF var_names.isNone THEN DataVars ELSE var_names.v

\* xarray_var_iter(data, var_names, combined=True, skip_dims): one
\* (variable, selection) pair per combination of the coordinate values of
\* the dimensions of the variable that are not skipped; the values of a
\* pair have the shape chain x draw x (the skipped dimensions).
RECURSIVE xarray_var_iter(_, _, _)
xarray_var_iter(schools, var_names, skip_dims) ==
    IF var_names = <<>>
    THEN <<>>
    ELSE LET var == Head(var_names)
             iterated == SelectSeq(VarDims(var), LAMBDA d : d \notin skip_dims)
             skipped == SelectSeq(VarDims(var), LAMBDA d : d \in skip_dims)
             triples ==
                 IF iterated = <<>>
                 THEN <<[var |-> var, sel |-> <<>>,
                         extra |-> IF skipped = <<>> THEN 0 ELSE Len(schools)]>>
                 ELSE [i \in DOMAIN schools |->
                          [var |-> var, sel |-> <<schools[i]>>, extra |-> 0]]
         IN  triples \o xarray_var_iter(schools, Tail(var_names), skip_dims)

(***************************************************************************)
(* plot_ppc                                                                *)
(***************************************************************************)
\* The largest number of draws per chain and of plot_ppc calls of the model.
MaxDraws == 3

MaxCalls == 2

PpcChains == {1, 2}

PpcVarCounts == {1, 2}

PpcSeeds == {0, 1}

\* The data argument: an object that lacks one of the two groups, or one
\* whose posterior_predictive group has chains x draws samples and whose
\* observed_data group has nvars variables; vars holds the dtype kind of
\* each of them, here a float.
PpcData ==
    {[has_groups |-> FALSE, chains |-> 1, draws |-> 1, nvars |-> 1,
      vars |-> <<"f">>]}
    \cup {[has_groups |-> TRUE, chains |-> c, draws |-> d, nvars |-> n,
           vars |-> [i \in 1..n |-> "f"]] :
                c \in PpcChains, d \in 1..MaxDraws, n \in PpcVarCounts}

PpcKinds == {s_kde, s_cumulative, s_scatter, s_Scatter, s_hist}

PyNone == [tag |-> "none", v |-> 0]

PyInt(n) == [tag |-> "int", v |-> n]

PyFloat(n) == [tag |-> "float", v |-> n]

\* The num_pp_samples a caller passes for a data set of `total` samples:
\* None, the float 1.0, or an integer from 0 to total + 1.
PpcNumArgs(total) ==
    {PyNone, PyFloat(1)} \cup {PyInt(n) : n \in 0..(total + 1)}

\* random_seed: None or an integer.
PpcSeedArgs ==
    {[isNone |-> TRUE, v |-> 0]} \cup [isNone : {FALSE}, v : PpcSeeds]

\* jitter: None, 0.5 or -1.0 (in tenths).
PpcJitterArgs ==
    {[isNone |-> TRUE, v |-> 0], [isNone |-> FALSE, v |-> 5],
     [isNone |-> FALSE, v |-> -10]}

\* ppcplot.py line 160
PpcKindValid(kind) == lower(kind) \in {s_kde, s_cumulative, s_scatter}

\* ppcplot.py lines 188-190
PpcJitter(jitter) == IF jitter.isNone THEN 0 ELSE jitter.v

\* A mutant of SeedRng: the seed is not applied.
SeedRng_ignored(state, random_seed) == state

\* ppcplot.py lines 211-212
SeedRng(state, random_seed) ==
    IF random_seed.isNone THEN state ELSE SeedState(random_seed.v)

\* ppcplot.py lines 215-219
DefaultNumPpSamples(num, kind, animated, total) ==
    IF num.tag = "none"
    THEN (IF kind = s_scatter /\ ~animated
          THEN PyInt(IF 5 < total THEN 5 ELSE total)
          ELSE PyInt(total))
    ELSE num

\* A mutant of NumPpSamplesInvalid: the upper limit is not checked.
NumPpSamplesInvalid_noupper(num, total) == num.tag # "int" \/ num.v < 1

\* ppcplot.py lines 221-225
NumPpSamplesInvalid(num, total) ==
    num.tag # "int" \/ num.v < 1 \/ num.v > total

\* ppcplot.py lines 285-286: the rows of pp_vals.reshape(total, -1) that the
\* indices pick; row r of the reshaped array is the sample <<chain, draw>>
\* with r = chain * draws + draw.
SampledRows(ix, draws) == [i \in DOMAIN ix |-> <<ix[i] \div draws, ix[i] % draws>>]

\* ppcplot.py lines 288, 383, 426: the rendering branch of a panel.
PpcBranch(kind) ==
    CASE kind = s_kde -> "kde"
      [] kind = s_cumulative -> "cumulative"
      [] kind = s_scatter -> "scatter"
      [] OTHER -> "none"

\* ppcplot.py lines 464-466, 488-492: the np.random.uniform draws of the
\* panel loop.
JitterDraws(kind, jitter, animated, nvars, num) ==
    IF PpcBranch(kind) = "scatter" /\ jitter # 0
    THEN nvars * (1 + (IF animated THEN 0 ELSE num))
    ELSE 0

\* The labels of the dimension "school" of the observed data, and the values
\* a coords entry can hold: labels, or integer positions.
Label(i) == [tag |-> "label", v |-> i]

Position(p) == [tag |-> "pos", v |-> p]

PpcLabels == <<Label(1), Label(2), Label(3)>>

\* The coords argument: None, or a dictionary with one key.
NoCoords == [isNone |-> TRUE, key |-> "", v |-> <<>>]

OneCoord(key, v) == [isNone |-> FALSE, key |-> key, v |-> v]

\* The ax argument: None, or len axes that are on one figure or not.
NoAx == [isNone |-> TRUE, len |-> 0, same_fig |-> TRUE]

\* ppcplot.py line 234: np.where(np.in1d(labels, wanted))[0], the positions
\* (from 0) of the labels that are among the wanted values.
np_where_in1d(labels, wanted) ==
    LET hits == SelectSeq([i \in DOMAIN labels |-> i],
                          LAMBDA i : \E j \in DOMAIN wanted : wanted[j] = labels[i])
    IN  [k \in DOMAIN hits |-> hits[k] - 1]

\* ppcplot.py lines 208-209 and 233-234: the positions that coords selects
\* and the coords dictionary after the loop, which stores the positions
\* under the key in place of the values it held.
SelectCoords(coords) ==
    CASE coords.isNone ->
            [exc |-> "none", selected |-> [i \in DOMAIN PpcLabels |-> i - 1],
             coords |-> coords]
      [] coords.key # "school" ->
            [exc |-> "KeyError", selected |-> <<>>, coords |-> coords]
      [] OTHER ->
            LET sel == np_where_in1d(PpcLabels, coords.v)
            IN  [exc |-> "none", selected |-> sel,
                 coords |-> [coords EXCEPT !.v = [k \in DOMAIN sel |-> Position(sel[k])]]]

\* ppcplot.py lines 166-171: animation_kwargs.setdefault("blit", ...)
AnimationDefaults(d, platform) ==
    setdefault(d, "blit", PyBool(platform = "Linux"))

\* The names of the variables of the observed_data group, in stored order.
\* The posterior_predictive group holds a variable of each of these names
\* and one of each name with the suffix _hat, of the same dtype.
ObsNames == <<"y1", "y2">>

HatOf(name) ==
    CASE name = "y1" -> "y1_hat"
      [] name = "y2" -> "y2_hat"
      [] OTHER -> name

ObsVars(data) == SubSeq(ObsNames, 1, Len(data.vars))

\* The dtype kind of a variable of the posterior_predictive group.
PpDtype(data, name) ==
    data.vars[CHOOSE i \in DOMAIN data.vars :
                  name \in {ObsNames[i], HatOf(ObsNames[i])}]

\* The flatten and flatten_pp arguments: None, or a list of dimensions.
NoFlatten == [isNone |-> TRUE, v |-> {}]

FlattenList(dims) == [isNone |-> FALSE, v |-> dims]

\* The var_names argument: None, or a list of names.
NoVarNames == [isNone |-> TRUE, v |-> <<>>]

\* ppcplot.py lines 163-164 and 198: data_pairs.get(var, var)
DataPairsGet(data_pairs, var) ==
    IF ~data_pairs.isNone /\ var \in DOMAIN data_pairs.d
    THEN data_pairs.d[var]
    ELSE var

\* ppcplot.py lines 195-197
PpcVarNames(data, var_names) ==
    IF var_names.isNone THEN ObsVars(data) ELSE var_names.v

\* ppcplot.py lines 198-199
PpVarNames(data_pairs, var_names) ==
    [i \in DOMAIN var_names |-> DataPairsGet(data_pairs, var_names[i])]

\* ppcplot.py lines 201-204: flatten_pp, set before flatten gets its default.
FlattenPp(flatten, flatten_pp) ==
    CASE ~flatten_pp.isNone -> flatten_pp.v
      [] flatten.isNone -> {"chain", "draw", "school"}
      [] OTHER -> flatten.v

\* ppcplot.py lines 205-206: the dimensions of observed_data by default.
Flatten(flatten) == IF flatten.isNone THEN {"school"} ELSE flatten.v

\* ppcplot.py lines 246-256: zip(range(n), iterator) takes the first n
\* elements of the iterator, or all of them when it has fewer.
zip_range(n, s) == SubSeq(s, 1, IF n < Len(s) THEN n ELSE Len(s))

\* ppcplot.py lines 236-256: obs_plotters and pp_plotters for the positions
\* that coords selects.  filter_plotters_list cuts the list at the
\* rcParams limit of 40 panels, which no data set here reaches.
PpcPlotters(data, args, selected) ==
    LET schools == [k \in DOMAIN selected |-> PpcLabels[selected[k] + 1]]
        var_names == PpcVarNames(data, args.var_names)
        obs == xarray_var_iter(schools, var_names, Flatten(args.flatten))
    IN  [obs |-> obs,
         pp |-> zip_range(Len(obs),
                          xarray_var_iter(schools,
                                          PpVarNames(args.data_pairs, var_names),
                                          FlattenPp(args.flatten, args.flatten_pp)))]

\* The plotters of a call that does not get to them.
NoPlotters == [obs |-> <<>>, pp |-> <<>>]

\* ppcplot.py lines 278-281: the dtype kind of pp_vals in each iteration of
\* the panel loop, or NoPlotter where pp_plotters[i] does not exist.
NoPlotter == "IndexError"

PanelDtypes_of(data, plotters) ==
    [i \in DOMAIN plotters.obs |->
        IF i <= Len(plotters.pp)
        THEN PpDtype(data, plotters.pp[i].var)
        ELSE NoPlotter]

\* ppcplot.py lines 278-511, one iteration of the panel loop: what is drawn
\* on the axes of the panel, in order, the exception that ends the
\* iteration, and whether the iteration assigns animate and init.  dtype is
\* the dtype kind of the posterior predictive variable, or NoPlotter when
\* line 280 finds no pp_plotters[i]; empty says that the
\* selection holds no value, and density_fails that the density code, which
\* is not part of the source, fails on such a sample.
PpcPanel(kind, dtype, animated, mean, empty, density_fails) ==
    LET pp == IF animated THEN <<"pp_animated">> ELSE <<"pp">>
        mean_line == IF mean THEN <<"pp_mean">> ELSE <<>>
        close == <<"xlabel", "legend">>
        done(log) == [exc |-> "none", why |-> "", log |-> log \o close,
                      animates |-> animated]
        failed(e, w, log) == [exc |-> e, why |-> w, log |-> log, animates |-> FALSE]
        no_density == empty /\ density_fails
    IN  CASE dtype = NoPlotter ->
                failed("IndexError", "pp_plotters", <<>>)
          [] PpcBranch(kind) = "kde" ->
                (CASE dtype = "f" /\ no_density ->
                        failed("DensityError", "density", <<"pp_label">>)
                   [] dtype \notin {"f", "i"} ->
                        failed("KeyError", "drawstyle", <<"pp_label">>)
                   [] OTHER ->
                        done(<<"pp_label", "obs">> \o pp \o mean_line \o <<"ticks">>))
          [] PpcBranch(kind) = "cumulative" ->
                done(<<"obs">> \o pp \o <<"pp_label">> \o mean_line \o <<"ticks">>)
          [] PpcBranch(kind) = "scatter" ->
                (IF mean /\ dtype = "f" /\ no_density
                 THEN failed("DensityError", "density", <<>>)
                 ELSE done(mean_line \o <<"obs">> \o pp \o <<"pp_label", "ticks">>))
          [] OTHER -> done(<<>>)

\* ppcplot.py lines 278-511: the panel loop over the axes.  It ends at the
\* first iteration that raises; the panels before it stay drawn.  animates
\* is the number of the last panel whose iteration assigned animate and init
\* (0 when none did).
RECURSIVE PpcPanels(_, _, _, _, _, _, _, _, _)
PpcPanels(i, vars_, kind, animated, mean, empty, density_fails, axes, animates) ==
    IF i > Len(vars_)
    THEN [exc |-> "none", why |-> "", axes |-> axes, animates |-> animates,
          completed |-> Len(vars_)]
    ELSE LET r == PpcPanel(kind, vars_[i], animated, mean, empty, density_fails)
             now == [axes EXCEPT ![i] = @ \o r.log]
         IN  IF r.exc # "none"
             THEN [exc |-> r.exc, why |-> r.why, axes |-> now,
                   animates |-> animates, completed |-> i - 1]
             ELSE PpcPanels(i + 1, vars_, kind, animated, mean, empty,
                            density_fails, now,
                            IF r.animates /\ PpcBranch(kind) # "none"
                            THEN i ELSE animates)

\* The number of the panels on which observed data was drawn.
PanelsDrawn(axes) ==
    Cardinality({i \in DOMAIN axes : \E j \in DOMAIN axes[i] : axes[i][j] = "obs"})

\* ppcplot.py line 515: np.arange(0, num_pp_samples)
np_arange(n) == [k \in 1..n |-> k - 1]

\* The animation that a call without animated=True does not make.
NoAnimation == [made |-> FALSE, frames |-> <<>>, panel |-> 0, blit |-> ""]

\* The whole of plot_ppc: the outcome of the call, the state it leaves the
\* global random generator in, and the coords and animation_kwargs objects
\* of the caller after the call.  axes is what was drawn on each target
\* axes, animation the FuncAnimation that the call returns.  When there is
\* no plotter at all, no density is computed, and density_fails says instead
\* that the figure code, which is not part of the source either, fails on
\* a grid without panels (lines 257-264).
plot_ppc(data, args, state, draws_before, density_fails) ==
    LET ak0 == args.animation_kwargs
        ak1 == SomeDict(AnimationDefaults(ak0.d, args.platform))
        \* a dictionary created inside the call is not the caller's
        ak_now == IF ak0.isNone THEN ak0 ELSE ak1
        jitter == PpcJitter(args.jitter)
        seeded == SeedRng(state, args.random_seed)
        total == data.chains * data.draws
        num == DefaultNumPpSamples(args.num_pp_samples, args.kind,
                                   args.animated, total)
        choice == np_random_choice(seeded, total, num.v)
        sel == SelectCoords(args.coords)
        plotters == IF sel.exc # "none"
                    THEN NoPlotters
                    ELSE PpcPlotters(data, args, sel.selected)
        npanels == Len(plotters.obs)
        blank == [i \in 1..npanels |-> <<>>]
        loop == PpcPanels(1, PanelDtypes_of(data, plotters), args.kind,
                          args.animated, args.mean,
                          sel.selected = <<>>, density_fails, blank, 0)
        after_loop == RngDraws(choice.state,
                               JitterDraws(args.kind, jitter, args.animated,
                                           loop.completed, num.v))
        early(e, w, st, ak) ==
            [call |-> [called |-> TRUE, exc |-> e, why |-> w,
                       num_pp_samples |-> 0, pp_sample_ix |-> <<>>,
                       rows |-> <<>>, panels |-> 0, drawn |-> 0,
                       draws_before |-> draws_before, selected |-> <<>>,
                       axes |-> <<>>, animation |-> NoAnimation,
                       obs_plotters |-> <<>>, pp_plotters |-> <<>>],
             state |-> st, coords |-> args.coords, animation_kwargs |-> ak]
        late(e, w, st, coords, axes, ani) ==
            [call |-> [called |-> TRUE, exc |-> e, why |-> w,
                       num_pp_samples |-> num.v, pp_sample_ix |-> choice.ix,
                       rows |-> SampledRows(choice.ix, data.draws),
                       panels |-> npanels, drawn |-> PanelsDrawn(axes),
                       draws_before |-> draws_before, selected |-> sel.selected,
                       axes |-> axes, animation |-> ani,
                       obs_plotters |-> plotters.obs,
                       pp_plotters |-> plotters.pp],
             state |-> st, coords |-> coords, animation_kwargs |-> ak_now]
    IN  CASE ~data.has_groups -> early("TypeError", "group", state, ak0)
          [] ~PpcKindValid(args.kind) -> early("TypeError", "kind", state, ak0)
          [] jitter < 0 -> early("AssertionError", "jitter", state, ak_now)
          [] NumPpSamplesInvalid(num, total) ->
                early("TypeError", "num_pp_samples", seeded, ak_now)
          [] ~choice.ok -> early("ValueError", "choice", seeded, ak_now)
          [] sel.exc # "none" ->
                late(sel.exc, "coords", choice.state, args.coords, <<>>,
                     NoAnimation)
          [] ~args.ax.isNone /\ args.ax.len # npanels ->
                late("ValueError", "axes", choice.state, sel.coords, <<>>,
                     NoAnimation)
          [] args.ax.isNone /\ sel.exc = "none" /\ npanels = 0 /\ density_fails ->
                late("ValueError", "grid", choice.state, sel.coords, <<>>,
                     NoAnimation)
          [] ~args.ax.isNone /\ args.animated /\ ~args.ax.same_fig ->
                late("ValueError", "figure", choice.state, sel.coords, blank,
                     NoAnimation)
          [] loop.exc # "none" ->
                late(loop.exc, loop.why, after_loop, sel.coords, loop.axes,
                     NoAnimation)
          [] args.animated /\ loop.animates = 0 ->
                late("UnboundLocalError", "animate", after_loop, sel.coords,
                     loop.axes, NoAnimation)
          [] OTHER ->
                late("none", "", after_loop, sel.coords, loop.axes,
                     IF args.animated
                     THEN [made |-> TRUE, frames |-> np_arange(num.v),
                           panel |-> loop.animates, blit |-> ak1.d["blit"]]
                     ELSE NoAnimation)

\* A mutant of AnimateShows: every frame shows the first replicate.
AnimateShows_first(rows, i) == rows[1]

\* ppcplot.py lines 546-550, 563-566, 574-577, 586-588: animate(i) sets the
\* line to the data of pp_sampled_vals[i].
AnimateShows(rows, i) == rows[i + 1]

\* The replicate that a line shows after _set_animation made it (lines 544,
\* 555, 570-572, 582-584), and what it shows after init().
LineFirst(rows) == rows[1]

LineEmpty == <<>>

\* The animated line of every panel after a call.
AnimatedLines(call) ==
    IF call.animation.made
    THEN [i \in 1..call.panels |-> LineFirst(call.rows)]
    ELSE <<>>

\* plot_ppc is called with the coords and animation_kwargs objects that the
\* caller holds; when the selection is empty, the density code fails on the
\* empty sample or it does not.
PlotPpc ==
    /\ ppc_calls < MaxCalls
    /\ \E density_fails \in
            (IF SelectCoords(caller_coords).selected = <<>> THEN BOOLEAN ELSE {FALSE}) :
        \E r \in {plot_ppc(ppc_data,
                           [ppc_args EXCEPT !.coords = caller_coords,
                                            !.animation_kwargs = caller_animation_kwargs],
                           rng_state, ppc_between, density_fails)} :
            /\ ppc_call' = r.call
            /\ rng_state' = r.state
            /\ caller_coords' = r.coords
            /\ caller_animation_kwargs' = r.animation_kwargs
            /\ anim_lines' = AnimatedLines(r.call)
    /\ ppc_calls' = ppc_calls + 1
    /\ ppc_between' = FALSE
    /\ anim_cursor' = -1
    /\ UNCHANGED <<ppc_data, ppc_args, dist_vars, cdf_vars, joint_vars, trace_vars>>

\* Between two plot_ppc calls other code of the process draws from the
\* global random generator, any number of times: it is left in any state.
OtherRandomDraw ==
    /\ ppc_calls >= 1
    /\ ~ppc_between
    /\ rng_state' \in 0..(RngMod - 1) \ {rng_state}
    /\ ppc_between' = TRUE
    /\ UNCHANGED <<ppc_data, ppc_args, ppc_calls, ppc_call, caller_coords,
                   caller_animation_kwargs, anim_cursor, anim_lines,
                   dist_vars, cdf_vars, joint_vars, trace_vars>>

\* ppcplot.py lines 590-595: the rendering loop calls init() before the
\* first frame of a run through the frames; init clears the line it holds.
AnimInit ==
    /\ ppc_call.animation.made
    /\ anim_cursor \in {-1, Len(ppc_call.animation.frames)}
    /\ anim_cursor' = 0
    /\ anim_lines' = [anim_lines EXCEPT ![ppc_call.animation.panel] = LineEmpty]
    /\ UNCHANGED <<ppc_data, ppc_args, rng_state, ppc_between, ppc_calls,
                   ppc_call, caller_coords, caller_animation_kwargs,
                   dist_vars, cdf_vars, joint_vars, trace_vars>>

\* ppcplot.py lines 513-517: the rendering loop calls animate with the next
\* of the frames it was given; animate sets the line it holds.
AnimFrame ==
    /\ ppc_call.animation.made
    /\ anim_cursor >= 0
    /\ anim_cursor < Len(ppc_call.animation.frames)
    /\ anim_cursor' = anim_cursor + 1
    /\ anim_lines' =
        [anim_lines EXCEPT ![ppc_call.animation.panel] =
            AnimateShows(ppc_call.rows, ppc_call.animation.frames[anim_cursor + 1])]
    /\ UNCHANGED <<ppc_data, ppc_args, rng_state, ppc_between, ppc_calls,
                   ppc_call, caller_coords, caller_animation_kwargs,
                   dist_vars, cdf_vars, joint_vars, trace_vars>>

\* The arguments of a plot_ppc call that leaves var_names, data_pairs,
\* flatten and flatten_pp at None.
PpcArgs(kind, animated, num, seed, jitter, coords, ak, ax, mean, platform) ==
    [kind |-> kind, animated |-> animated, num_pp_samples |-> num,
     random_seed |-> seed, jitter |-> jitter, coords |-> coords,
     animation_kwargs |-> ak, ax |-> ax, mean |-> mean, platform |-> platform,
     var_names |-> NoVarNames, data_pairs |-> NoneDict,
     flatten |-> NoFlatten, flatten_pp |-> NoFlatten]

\* The state of the objects of the caller before its first call.
PpcStart ==
    /\ caller_coords = ppc_args.coords
    /\ caller_animation_kwargs = ppc_args.animation_kwargs
    /\ ppc_between = FALSE
    /\ ppc_calls = 0
    /\ ppc_call = NoPpcCall
    /\ anim_cursor = -1
    /\ anim_lines = <<>>

\* The caller has a data set and builds the arguments of its plot_ppc calls;
\* the global random generator is in any state.
InitPpc ==
    /\ ppc_data \in PpcData
    /\ \E kind \in PpcKinds, animated \in BOOLEAN,
          num \in PpcNumArgs(ppc_data.chains * ppc_data.draws),
          seed \in PpcSeedArgs, jitter \in PpcJitterArgs :
            ppc_args = PpcArgs(kind, animated, num, seed, jitter, NoCoords,
                               NoneDict, NoAx, TRUE, "Linux")
    /\ rng_state \in 0..(RngMod - 1)
    /\ PpcStart
    /\ DistIdle
    /\ CdfIdle
    /\ JointIdle
    /\ TraceIdle

NextPpc == PlotPpc \/ OtherRandomDraw

SpecPpc == InitPpc /\ [][NextPpc]_vars

(***************************************************************************)
(* plot_ppc, the panels and the animation: the variables of the data set   *)
(* have any dtype kind, axes may be passed, and the rendering loop plays   *)
(* the animation that a call returns.                                      *)
(***************************************************************************)
PanelDtypes == {"f", "i", "u"}

PanelVars ==
    {<<a>> : a \in PanelDtypes} \cup {<<a, b>> : a \in PanelDtypes, b \in PanelDtypes}

PanelData ==
    {[has_groups |-> TRUE, chains |-> c, draws |-> d, nvars |-> Len(v),
      vars |-> v] : c \in PpcChains, d \in 1..MaxDraws, v \in PanelVars}

PanelAx ==
    {NoAx, [isNone |-> FALSE, len |-> 1, same_fig |-> TRUE],
     [isNone |-> FALSE, len |-> 2, same_fig |-> TRUE],
     [isNone |-> FALSE, len |-> 2, same_fig |-> FALSE]}

InitPanels ==
    /\ ppc_data \in PanelData
    /\ \E kind \in PpcKinds, animated \in BOOLEAN, num \in {PyNone, PyInt(1)},
          ax \in PanelAx :
            ppc_args = PpcArgs(kind, animated, num, [isNone |-> TRUE, v |-> 0],
                               [isNone |-> TRUE, v |-> 0], NoCoords, NoneDict,
                               ax, TRUE, "Linux")
    /\ rng_state = 0
    /\ PpcStart
    /\ DistIdle
    /\ CdfIdle
    /\ JointIdle
    /\ TraceIdle

NextPanels == PlotPpc \/ AnimInit \/ AnimFrame

SpecPanels == InitPanels /\ [][NextPanels]_vars

(***************************************************************************)
(* plot_ppc, the objects of the caller: the caller passes a coords and an  *)
(* animation_kwargs dictionary and calls again with the same objects.      *)
(***************************************************************************)
PpcCoords ==
    {NoCoords,
     OneCoord("school", <<Label(1)>>),
     OneCoord("school", <<Label(1), Label(3)>>),
     OneCoord("school", <<Label(9)>>),
     OneCoord("school", <<Label(2), Label(9)>>),
     OneCoord("team", <<Label(1)>>)}

PpcAnimationKwargs ==
    {NoneDict, SomeDict(EmptyDict), SomeDict("blit" :> "False"),
     SomeDict("interval" :> "100")}

InitObjects ==
    /\ ppc_data \in {[has_groups |-> TRUE, chains |-> 1, draws |-> 2,
                      nvars |-> Len(v), vars |-> v] : v \in {<<"f">>, <<"f", "i">>}}
    /\ \E kind \in {s_kde, s_cumulative, s_scatter}, animated \in BOOLEAN,
          seed \in PpcSeedArgs, coords \in PpcCoords,
          ak \in PpcAnimationKwargs, platform \in {"Linux", "Windows"} :
            ppc_args = PpcArgs(kind, animated, PyNone, seed,
                               [isNone |-> TRUE, v |-> 0], coords, ak, NoAx,
                               TRUE, platform)
    /\ rng_state \in 0..(RngMod - 1)
    /\ PpcStart
    /\ DistIdle
    /\ CdfIdle
    /\ JointIdle
    /\ TraceIdle

NextObjects == PlotPpc \/ OtherRandomDraw

SpecObjects == InitObjects /\ [][NextObjects]_vars

(***************************************************************************)
(* plot_ppc, the pairing of the plotters: the caller chooses var_names,    *)
(* data_pairs, flatten, flatten_pp and coords.                             *)
(***************************************************************************)
PairData ==
    {[has_groups |-> TRUE, chains |-> 1, draws |-> 2, nvars |-> Len(v),
      vars |-> v] : v \in {<<"f">>, <<"f", "i">>}}

PairFlatten == {NoFlatten, FlattenList({}), FlattenList({"school"})}

PairDataPairs ==
    {NoneDict, SomeDict("y1" :> "y1_hat"),
     SomeDict(("y1" :> "y1_hat") @@ ("y2" :> "y2_hat"))}

PairVarNames(data) ==
    {NoVarNames} \cup
    (IF Len(data.vars) = 2
     THEN {[isNone |-> FALSE, v |-> <<"y2", "y1">>]}
     ELSE {})

PairCoords ==
    {NoCoords, OneCoord("school", <<Label(2)>>),
     OneCoord("school", <<Label(1), Label(3)>>)}

InitPairs ==
    /\ ppc_data \in PairData
    /\ \E kind \in {s_kde, s_scatter}, coords \in PairCoords,
          var_names \in PairVarNames(ppc_data), data_pairs \in PairDataPairs,
          flatten \in PairFlatten, flatten_pp \in PairFlatten :
            ppc_args = [PpcArgs(kind, FALSE, PyNone, [isNone |-> TRUE, v |-> 0],
                                [isNone |-> TRUE, v |-> 0], coords, NoneDict,
                                NoAx, TRUE, "Linux")
                            EXCEPT !.var_names = var_names,
                                   !.data_pairs = data_pairs,
                                   !.flatten = flatten,
                                   !.flatten_pp = flatten_pp]
    /\ rng_state = 0
    /\ PpcStart
    /\ DistIdle
    /\ CdfIdle
    /\ JointIdle
    /\ TraceIdle

NextPairs == PlotPpc

SpecPairs == InitPairs /\ [][NextPairs]_vars

(***************************************************************************)
(* plot_joint                                                              *)
(***************************************************************************)
JointKinds == {s_scatter, s_kde, s_hexbin, s_Scatter, s_hist}

JointVarNames ==
    {[isNone |-> TRUE, v |-> <<>>]}
    \cup [isNone : {FALSE},
          v : {<<>>, <<"mu">>, <<"mu", "tau">>, <<"tau", "mu">>, <<"theta">>,
               <<"mu", "theta">>, <<"mu", "tau", "theta">>}]

JointCoords ==
    {[isNone |-> TRUE, v |-> <<>>]}
    \cup [isNone : {FALSE}, v : {<<"A">>, <<"A", "B">>, <<"C", "A">>}]

\* The ax argument: None, or a sequence of 2, 3 or 4 axes.
JointAx ==
    {[isNone |-> TRUE, len |-> 0]} \cup [isNone : {FALSE}, len : {2, 3, 4}]

JointMarginalKwargs ==
    {NoneDict, SomeDict(EmptyDict),
     SomeDict("plot_kwargs" :> ("linewidth" :> "9"))}

\* jointplot.py lines 120-121
JointKindValid(kind) == kind \in {s_scatter, s_kde, s_hexbin}

\* A mutant of PlotterCountInvalid: only too few plotters are rejected.
PlotterCountInvalid_atleast(n) == n < 2

\* jointplot.py line 135
PlotterCountInvalid(n) == n # 2

\* jointplot.py lines 147-148: the plot_kwargs entry of marginal_kwargs is
\* created when missing and its linewidth is overwritten.
MarginalDefaults(d) ==
    LET d1 == setdefault(d, "plot_kwargs", [k \in {} |-> ""])
    IN  [d1 EXCEPT !["plot_kwargs"] =
            [k \in DOMAIN @ \cup {"linewidth"} |->
                IF k = "linewidth" THEN "linewidth" ELSE @[k]]]

\* jointplot.py lines 182-190: what the kind draws on the joint axes.
JointArtists(kind) ==
    CASE kind = s_scatter -> <<"scatter">>
      [] kind = s_kde -> <<"plot_kde">>
      [] OTHER -> <<"hexbin", "grid">>

\* jointplot.py lines 192-193: a marginal is drawn by plot_dist with its
\* default kind and backend.
JointMarginal(rotate) ==
    plot_dist(s_auto, "f", NoneStr, TRUE, rotate, FALSE, NoneDict)[1].rendered

\* The whole of plot_joint: the outcome of the call, the caller's
\* marginal_kwargs object and the caller's axes after the call.  axes are
\* the three axes the call draws on, each as the list of what was drawn.
plot_joint(args, ax_now) ==
    LET plotters == xarray_var_iter(get_coords(args.coords),
                                    VarNames(args.var_names), {})
        n == Len(plotters)
        mk == args.marginal_kwargs
        mk_obj == SomeDict(MarginalDefaults(mk.d))
        \* a dictionary created inside the call is not the caller's
        mk_now == IF mk.isNone THEN mk ELSE mk_obj
        failed(e, w, mk_after) ==
            [call |-> [called |-> TRUE, exc |-> e, why |-> w, nplotters |-> n,
                       fig_created |-> FALSE, axes |-> <<>>],
             mk |-> mk_after, ax |-> ax_now]
        base == IF args.ax.isNone THEN <<<<>>, <<>>, <<>>>> ELSE ax_now
        axjoin == base[1] \o <<"set_xlabel", "set_ylabel", "tick_params">>
                    \o JointArtists(args.kind)
        ax_hist_x == base[2] \o <<"tick_params", JointMarginal(FALSE), "set_xlim">>
        ax_hist_y == base[3] \o <<"tick_params", JointMarginal(TRUE), "set_ylim">>
        drawn == <<axjoin, ax_hist_x, ax_hist_y>>
    IN  CASE ~JointKindValid(args.kind) -> failed("ValueError", "kind", mk)
          [] PlotterCountInvalid(n) -> failed("Exception", "plotters", mk)
          [] ~args.ax.isNone /\ args.ax.len # 3 -> failed("ValueError", "ax", mk_now)
          [] OTHER ->
                [call |-> [called |-> TRUE, exc |-> "none", why |-> "",
                           nplotters |-> n, fig_created |-> args.ax.isNone,
                           axes |-> drawn],
                 mk |-> mk_now,
                 ax |-> IF args.ax.isNone THEN ax_now ELSE drawn]

PlotJoint ==
    /\ ~joint_call.called
    /\ LET r == plot_joint(joint_args, caller_ax)
       IN  /\ joint_call' = r.call
           /\ caller_marginal_kwargs' = r.mk
           /\ caller_ax' = r.ax
    /\ UNCHANGED <<joint_args, dist_vars, cdf_vars, ppc_vars, trace_vars>>

\* The caller builds the arguments of one plot_joint call; the axes it
\* passes are empty or were drawn on before.
InitJoint ==
    /\ \E kind \in JointKinds, var_names \in JointVarNames,
          coords \in JointCoords, ax \in JointAx, mk \in JointMarginalKwargs :
            joint_args = [kind |-> kind, var_names |-> var_names,
                          coords |-> coords, ax |-> ax, marginal_kwargs |-> mk]
    /\ caller_marginal_kwargs = joint_args.marginal_kwargs
    /\ caller_ax \in {[i \in 1..joint_args.ax.len |-> <<>>],
                      [i \in 1..joint_args.ax.len |-> <<"old">>]}
    /\ joint_call = NoJointCall
    /\ DistIdle
    /\ CdfIdle
    /\ PpcIdle
    /\ TraceIdle

NextJoint == PlotJoint

SpecJoint == InitJoint /\ [][NextJoint]_vars

(***************************************************************************)
(* _plot_trace_bokeh and _plot_chains_bokeh                                *)
(***************************************************************************)
TraceChains == {1, 2}

TraceVarNames ==
    {[isNone |-> TRUE, v |-> <<>>]}
    \cup [isNone : {FALSE},
          v : {<<>>, <<"mu">>, <<"theta">>, <<"mu", "theta">>}]

TraceCoords ==
    {[isNone |-> TRUE, v |-> <<>>], [isNone |-> FALSE, v |-> <<"A", "B">>]}

\* rcParams["plot.max_subplots"]: None, or a number of panels (40 is the
\* default of the library).
TraceMaxSubplots == {PyNone, PyInt(1), PyInt(2), PyInt(40)}

TraceKwargs ==
    {NoneDict, SomeDict(EmptyDict), SomeDict("marker" :> "False"),
     SomeDict("marker" :> "True")}

\* A Python value passed as an argument: a bool, a float or another object.
ArgBool(b) == [tag |-> "bool", v |-> IF b THEN 1 ELSE 0]

ArgFloat(n) == [tag |-> "float", v |-> n]

ArgObj == [tag |-> "obj", v |-> 1]

ArgStr(name) == [tag |-> "str", v |-> name]

ArgCds(cds) == [tag |-> "cds", v |-> cds]

\* The truth value of a bool or a number in an if statement.
Truthy(x) == x.v # 0

\* bokeh_traceplot.py lines 243-258 and 262-277: the positional arguments of
\* the two calls of _plot_chains_bokeh, in the order the call writes them.
\* xt_labelsize is the positive label size that _scale_fig_size returns.
\* The third and fourth are cds_data and draw_name; the fifth is the
\* var_name of the panel, which ForPanel puts in.
ChainsCallArgs(combined, legend) ==
    <<ArgObj, ArgObj, ArgObj, ArgObj, ArgObj, ArgObj, ArgBool(combined),
      ArgBool(legend), ArgFloat(14), ArgObj, ArgObj, ArgObj, ArgObj, ArgObj>>

WithColumns(actuals, cols) ==
    [actuals EXCEPT ![3] = ArgCds(cols.cds), ![4] = ArgStr(cols.draw_name)]

ForPanel(actuals, var_name) == [actuals EXCEPT ![5] = ArgStr(var_name)]

\* bokeh_traceplot.py line 230: data[var_name][chain_idx].values, all the
\* draws of a chain of the variable for all the schools that coords keeps
\* (a variable without the dimension school has none to tell apart); and
\* line 236: data.draw.values.
VarColumn(var, chain_idx, schools) ==
    [of |-> "variable", var |-> var, chain |-> chain_idx,
     schools |-> IF VarDims(var) = <<>> THEN <<>> ELSE schools]

DrawColumn(chain_idx) ==
    [of |-> "draw", var |-> "", chain |-> chain_idx, schools |-> <<>>]

\* bokeh_traceplot.py lines 226-230: the keys of cds_data[0]
PlottedNames(plotters) == {plotters[i].var : i \in DOMAIN plotters}

\* A mutant of draw_name_loop: the name is not changed.
draw_name_loop_never(draw_name, keys) == draw_name

\* bokeh_traceplot.py lines 232-233: while any(key == draw_name ...):
\* draw_name += "w"
RECURSIVE draw_name_loop(_, _)
draw_name_loop(draw_name, keys) ==
    IF \E key \in keys : key = draw_name
    THEN draw_name_loop(draw_name \o "w", keys)
    ELSE draw_name

\* The columns that a name and a set of plotted names give every chain:
\* line 236 stores the draw index under the name, over a column of a
\* variable that has it.
Columns(draw_name, keys, chains, schools) ==
    [draw_name |-> draw_name,
     cds |-> [chain_idx \in 0..(chains - 1) |->
                (draw_name :> DrawColumn(chain_idx))
                @@ [key \in keys |-> VarColumn(key, chain_idx, schools)]]]

\* bokeh_traceplot.py lines 223-238: cds_data and draw_name
cds_data(plotters, chains, schools) ==
    Columns(draw_name_loop("draw", PlottedNames(plotters)),
            PlottedNames(plotters), chains, schools)

\* The columns of a call that does not get to them.
NoColumns == [draw_name |-> "", cds |-> <<>>]

\* bokeh_traceplot.py lines 325-340: the parameters of _plot_chains_bokeh,
\* in the order the signature declares them.
ChainsParams ==
    <<"ax_density", "ax_trace", "data", "x_name", "y_name", "colors",
      "combined", "xt_labelsize", "legend", "trace_kwargs", "hist_kwargs",
      "plot_kwargs", "fill_kwargs", "rug_kwargs">>

\* The value a parameter is bound to by a positional call.
BoundArg(actuals, name) ==
    actuals[CHOOSE i \in DOMAIN ChainsParams : ChainsParams[i] = name]

\* bokeh_traceplot.py lines 147-153: the colour list holds one colour per
\* chain and one more when combined; a colour is named by its position.
TraceColors(chains, combined) ==
    [i \in 1..(IF combined THEN chains + 1 ELSE chains) |-> i - 1]

\* bokeh_traceplot.py line 341: dict.pop("marker", True)
PopMarker(tk) ==
    [marker |-> IF "marker" \in DOMAIN tk THEN tk["marker"] ELSE "True",
     tk |-> [k \in DOMAIN tk \ {"marker"} |-> tk[k]]]

\* "chain {}".format(chain_idx), and the absence of a label
ChainLabel(chain_idx) == <<"chain", chain_idx>>

NoLabel == <<>>

\* bokeh_traceplot.py lines 325-410, one call of _plot_chains_bokeh: the
\* trace lines and the distribution plots it adds to the two figures of a
\* panel, the exception that ends it and the trace_kwargs it leaves.  The
\* chains are the keys 0..chains-1 of the column data.  The pooled sample of
\* lines 398-400 reads the attribute .values of the columns, which are the
\* numpy arrays stored at line 230 and have no such attribute.
plot_chains_bokeh(actuals, colors, chains, tk) ==
    LET popped == PopMarker(tk)
        legend == BoundArg(actuals, "legend")
        combined == BoundArg(actuals, "combined")
        textsize == BoundArg(actuals, "xt_labelsize")
        label(k) == IF Truthy(legend) THEN ChainLabel(k) ELSE NoLabel
        in_range == chains <= Len(colors)
        data == BoundArg(actuals, "data").v
        x_name == BoundArg(actuals, "x_name").v
        y_name == BoundArg(actuals, "y_name").v
        lines == [i \in 1..chains |->
                    [chain |-> i - 1, color |-> colors[i], label |-> label(i - 1),
                     marker |-> popped.marker = "True",
                     kwargs |-> DOMAIN popped.tk,
                     x |-> data[i - 1][x_name], y |-> data[i - 1][y_name]]]
        dists == IF Truthy(combined)
                 THEN <<>>
                 ELSE [i \in 1..chains |->
                         [data |-> ChainLabel(i - 1), color |-> colors[i],
                          values |-> data[i - 1][y_name],
                          label |-> label(i - 1), textsize |-> textsize,
                          by |-> plot_dist(s_auto, "f", s_bokeh, TRUE, FALSE,
                                           FALSE, SomeDict(EmptyDict))[1].rendered]]
    IN  CASE ~in_range ->
                [exc |-> "IndexError", lines |-> <<>>, dists |-> <<>>,
                 tk |-> popped.tk]
          [] Truthy(combined) ->
                [exc |-> "AttributeError", lines |-> lines, dists |-> <<>>,
                 tk |-> popped.tk]
          [] OTHER ->
                [exc |-> "none", lines |-> lines, dists |-> dists,
                 tk |-> popped.tk]

\* bokeh_traceplot.py lines 241-278: the calls of _plot_chains_bokeh of one
\* panel, one for a 2-D value and one per sub-dimension otherwise, each with
\* the same arguments.  AfterChainsCall is the rest of the loop after a
\* call that returned r.
RECURSIVE PanelCalls(_, _, _, _, _, _)
RECURSIVE AfterChainsCall(_, _, _, _, _, _)
AfterChainsCall(r, ncalls, actuals, colors, chains, panel) ==
    IF r.exc # "none"
    THEN [exc |-> r.exc, panel |-> panel, tk |-> r.tk]
    ELSE PanelCalls(ncalls - 1, actuals, colors, chains, r.tk, panel)

\* The panel with the lines and distributions that a call added.
PanelWith(panel, r) ==
    [panel EXCEPT !.lines = @ \o r.lines, !.dists = @ \o r.dists, !.calls = @ + 1]

PanelCalls(ncalls, actuals, colors, chains, tk, panel) ==
    IF ncalls = 0
    THEN [exc |-> "none", panel |-> panel, tk |-> tk]
    ELSE LET r == plot_chains_bokeh(actuals, colors, chains, tk)
         IN  AfterChainsCall([exc |-> r.exc, tk |-> r.tk], ncalls, actuals,
                             colors, chains, PanelWith(panel, r))

\* bokeh_traceplot.py lines 240-316: the loop over the panels.  AfterPanel is
\* the rest of the loop after the calls of panel idx returned r: the title
\* of the panel is set (280-283) and the next panel follows.
RECURSIVE TracePanels(_, _, _, _, _, _, _)
RECURSIVE AfterPanel(_, _, _, _, _, _, _)
AfterPanel(r, plotters, idx, actuals, colors, chains, done) ==
    IF r.exc # "none"
    THEN [exc |-> r.exc, panels |-> Append(done, r.panel), tk |-> r.tk]
    ELSE TracePanels(plotters, idx + 1, actuals, colors, chains, r.tk,
                     Append(done, [r.panel EXCEPT !.title = TRUE]))

\* The number of _plot_chains_bokeh calls of the panel of a triple.
ChainsCalls(t) == IF t.extra = 0 THEN 1 ELSE t.extra

NewPanel(t) ==
    [var |-> t.var, sel |-> t.sel, lines |-> <<>>, dists |-> <<>>,
     calls |-> 0, title |-> FALSE]

TracePanels(plotters, idx, actuals, colors, chains, tk, done) ==
    IF idx > Len(plotters)
    THEN [exc |-> "none", panels |-> done, tk |-> tk]
    ELSE AfterPanel(PanelCalls(ChainsCalls(plotters[idx]),
                               ForPanel(actuals, plotters[idx].var), colors,
                               chains, tk, NewPanel(plotters[idx])),
                    plotters, idx, actuals, colors, chains, done)

\* bokeh_traceplot.py lines 175-178 and 196
TraceKwargsDefaults(d) ==
    setdefault(setdefault(d, "alpha", "0.35"), "line_width", "linewidth")

\* The outcome of a _plot_trace_bokeh call that went on with the plotters
\* kept, and the trace_kwargs object after it.
TraceOutcome(e, w, all, ncolors, panels, tk, cols) ==
    [call |-> [called |-> TRUE, exc |-> e, why |-> w, warned |-> FALSE,
               all_plotters |-> all, plotters |-> all, ncolors |-> ncolors,
               panels |-> panels, draw_name |-> cols.draw_name,
               cds_data |-> cols.cds],
     tk |-> tk]

\* bokeh_traceplot.py lines 240-322: the outcome of a call whose panel loop
\* returned r.
AfterTracePanels(r, all, ncolors, cols) ==
    IF r.exc # "none"
    THEN TraceOutcome(r.exc, "chains", all, ncolors, r.panels, SomeDict(r.tk),
                      cols)
    ELSE TraceOutcome("none", "", all, ncolors, r.panels, SomeDict(r.tk), cols)

\* bokeh_traceplot.py lines 223-322: the column data is built and the panels
\* are drawn from it.
WithCdsData(cols, all, colors, args, tk) ==
    AfterTracePanels(
        TracePanels(all, 1,
                    WithColumns(ChainsCallArgs(args.combined, args.legend), cols),
                    colors, args.chains, tk, <<>>),
        all, Len(colors), cols)

\* The whole of _plot_trace_bokeh: the outcome of the call and the caller's
\* trace_kwargs object after it.  The name warnings is not bound in the
\* module (lines 1-14 do not import it), so the statement that would emit
\* the warning raises NameError.
plot_trace_bokeh_body(args, max_subplots, all, colors) ==
    LET max_plots == IF max_subplots.tag = "none" THEN Len(all) ELSE max_subplots.v
        tk1 == SomeDict(TraceKwargsDefaults(args.trace_kwargs.d))
    IN  CASE Len(all) > max_plots ->
                TraceOutcome("NameError", "warnings", all, Len(colors), <<>>,
                             args.trace_kwargs, NoColumns)
          [] Len(all) = 0 ->
                TraceOutcome("ZeroDivisionError", "figsize", all, Len(colors),
                             <<>>, tk1, NoColumns)
          [] OTHER ->
                WithCdsData(cds_data(all, args.chains, get_coords(args.coords)),
                            all, colors, args, tk1.d)

\* A dictionary created inside the call is not the caller's.
CallerDict(arg, r_tk) == IF arg.isNone THEN arg ELSE r_tk

CallerSees(arg, r) == [call |-> r.call, tk |-> CallerDict(arg, r.tk)]

plot_trace_bokeh(args, max_subplots) ==
    CallerSees(args.trace_kwargs,
               plot_trace_bokeh_body(
                   args, max_subplots,
                   xarray_var_iter(get_coords(args.coords), VarNames(args.var_names),
                                   IF args.compact THEN {"school"} ELSE {}),
                   TraceColors(args.chains, args.combined)))

PlotTraceBokeh ==
    /\ ~trace_call.called
    /\ \E r \in {plot_trace_bokeh(trace_args, trace_rc)} :
        /\ trace_call' = r.call
        /\ caller_trace_kwargs' = r.tk
    /\ UNCHANGED <<trace_args, trace_rc, dist_vars, cdf_vars, ppc_vars, joint_vars>>

\* The caller builds the arguments of one _plot_trace_bokeh call; the
\* configured limit on the number of panels is any of its values.
InitTrace ==
    /\ \E var_names \in TraceVarNames, coords \in TraceCoords,
          chains \in TraceChains, compact \in BOOLEAN, combined \in BOOLEAN,
          legend \in BOOLEAN, tk \in TraceKwargs :
            trace_args = [var_names |-> var_names, coords |-> coords,
                          chains |-> chains, compact |-> compact,
                          combined |-> combined, legend |-> legend,
                          trace_kwargs |-> tk]
    /\ trace_rc \in TraceMaxSubplots
    /\ caller_trace_kwargs = trace_args.trace_kwargs
    /\ trace_call = NoTraceCall
    /\ DistIdle
    /\ CdfIdle
    /\ PpcIdle
    /\ JointIdle

NextTrace == PlotTraceBokeh

SpecTrace == InitTrace /\ [][NextTrace]_vars

(***************************************************************************)
(* _plot_trace_bokeh, the column data: the plotted variables have any of   *)
(* a few names, among them names that begin like the draw column.          *)
(***************************************************************************)
ColumnNames == {"mu", "draw", "draww", "drawww"}

\* The var_names lists of one to three different names.
ColumnVarNames ==
    {<<a>> : a \in ColumnNames}
    \cup {s \in ColumnNames \X ColumnNames : s[1] # s[2]}
    \cup {s \in ColumnNames \X ColumnNames \X ColumnNames :
            s[1] # s[2] /\ s[1] # s[3] /\ s[2] # s[3]}

InitColumns ==
    /\ \E v \in ColumnVarNames, chains \in TraceChains, compact \in BOOLEAN,
          legend \in BOOLEAN :
            trace_args = [var_names |-> [isNone |-> FALSE, v |-> v],
                          coords |-> [isNone |-> TRUE, v |-> <<>>],
                          chains |-> chains, compact |-> compact,
                          combined |-> FALSE, legend |-> legend,
                          trace_kwargs |-> NoneDict]
    /\ trace_rc = PyNone
    /\ caller_trace_kwargs = trace_args.trace_kwargs
    /\ trace_call = NoTraceCall
    /\ DistIdle
    /\ CdfIdle
    /\ PpcIdle
    /\ JointIdle

NextColumns == PlotTraceBokeh

SpecColumns == InitColumns /\ [][NextColumns]_vars

(***************************************************************************)
(* Claims about plot_dist (checked under SpecDist).                        *)
(***************************************************************************)
\* C1: a plot_dist call with a kind other than "auto", "kde" or "hist" fails
\* with the invalid-kind error (a TypeError), the caller's hist_kwargs is as
\* it was before the call, and no rendering backend was invoked.
C1_InvalidKindFailsFirst ==
    (dist_call.called /\ dist_args.kind \notin {s_auto, s_kde, s_hist})
        => /\ dist_call.exc = "TypeError"
           /\ caller_hist_kwargs = dist_args.hist_kwargs
           /\ dist_call.rendered = "none"

\* C1 witness: a call with kind "violin" and a dictionary of the caller's has
\* been made and has failed.
C1_Witness ==
    /\ dist_call.called
    /\ dist_args.kind = s_violin
    /\ ~dist_args.hist_kwargs.isNone
    /\ dist_call.exc = "TypeError"

\* C2: the kind the renderer receives is "hist" for kind "auto" on an integral
\* element type (signed or unsigned), "kde" for "auto" on any other element
\* type, and an explicit "hist" or "kde" unchanged.
C2_AutoResolvesByIntegrality ==
    (dist_call.called /\ dist_call.exc = "none")
        => dist_call.kind_passed =
              (IF dist_args.kind = s_auto
               THEN (IF dist_args.dtype \in IntegralDtypeKinds
                     THEN s_hist ELSE s_kde)
               ELSE dist_args.kind)

\* C3: with a valid kind, a backend name that is None or, in any letter case,
\* "mpl" or "matplotlib" reaches the matplotlib renderer; a name that is, in
\* any letter case, "bokeh" reaches the bokeh renderer (bokeh being
\* installed); any other name fails with the unsupported-backend error and
\* reaches no renderer.
C3_BackendDispatch ==
    (dist_call.called /\ dist_args.kind \in {s_auto, s_kde, s_hist})
        => LET b == dist_args.backend
               isMpl == b = NoneStr \/ lower(b) \in {s_mpl, s_matplotlib}
               isBokeh == b # NoneStr /\ lower(b) = s_bokeh
           IN  /\ isMpl => dist_call.rendered = "mpl"
               /\ (isBokeh /\ dist_args.bokeh_ok) => dist_call.rendered = "bokeh"
               /\ (~isMpl /\ ~isBokeh)
                    => /\ dist_call.exc = "NotImplementedError"
                       /\ dist_call.rendered = "none"

(***************************************************************************)
(* Claims about _empirical_cdf (checked under SpecCdf).                    *)
(***************************************************************************)
\* C4: for a sample of length n the call returns n cumulative fractions;
\* for n >= 2 the i-th (from 0) is (i)/(n-1), so the first is 0 and the last
\* is 1; for n = 1 it returns the single fraction 0.
C4_EvenlySpacedFractions ==
    cdf_out.called
        => LET n == Len(cdf_out.arg)
               y == cdf_out.y
           IN  /\ Len(y) = n
               /\ \A i \in 1..n : y[i][2] > 0
               /\ n >= 2 => /\ \A i \in 1..n :
                                  y[i][1] * (n - 1) = (i - 1) * y[i][2]
                            /\ y[1][1] = 0
                            /\ y[n][1] = y[n][2]
               /\ n = 1 => y[1][1] = 0

\* C4 witness: a call on a sample of three or more elements has returned.
C4_Witness == cdf_out.called /\ Len(cdf_out.arg) >= 3

\* The number of times v occurs in the sequence s.
Occurrences(s, v) == Cardinality({i \in DOMAIN s : s[i] = v})

\* C5: the first output is non-decreasing, has the same multiset of values
\* as the argument (a repeated value is kept), has the length of the argument
\* and of the fractions; the argument array is, when the call returns, as it
\* was before the call; and [3, 1, 2] gives [1, 2, 3] with the fractions
\* [0, 1/2, 1].
C5_SortedPermutation ==
    cdf_out.called
        => LET a == cdf_out.arg
               x == cdf_out.x
               y == cdf_out.y
           IN  /\ \A i \in 1..(Len(x) - 1) : x[i] <= x[i + 1]
               /\ \A v \in CdfValues : Occurrences(x, v) = Occurrences(a, v)
               /\ Len(x) = Len(a)
               /\ Len(x) = Len(y)
               /\ cdf_out.arg_after = a
               /\ a = <<3, 1, 2>>
                    => /\ x = <<1, 2, 3>>
                       /\ y[1][1] = 0
                       /\ 2 * y[2][1] = y[2][2]
                       /\ y[3][1] = y[3][2]

\* C5 witness: a call on an unsorted sample with a repeated value has
\* returned.
C5_Witness ==
    /\ cdf_out.called
    /\ cdf_out.arg # cdf_out.x
    /\ \E i, j \in DOMAIN cdf_out.arg : i # j /\ cdf_out.arg[i] = cdf_out.arg[j]

\* C6: every call on a reordering of the sample (the sorted values a call
\* returned included) returns the pair the first call returned for the
\* sample.
C6_PermutationInvariant ==
    cdf_out.called => /\ cdf_out.x = cdf_first.x
                      /\ cdf_out.y = cdf_first.y

\* C6 witness: after the first call on the sample, a call on a different,
\* unsorted ordering of it has returned.
C6_Witness ==
    /\ cdf_out.called
    /\ cdf_out.arg # cdf_orig
    /\ cdf_out.arg # cdf_out.x
    /\ cdf_orig # cdf_out.x

(***************************************************************************)
(* Claims about plot_ppc (checked under SpecPpc).                          *)
(***************************************************************************)
PpcTotal == ppc_data.chains * ppc_data.draws

\* The arguments checked before num_pp_samples are acceptable.
PpcEarlyChecksPass ==
    /\ ppc_data.has_groups
    /\ lower(ppc_args.kind) \in {s_kde, s_cumulative, s_scatter}
    /\ (ppc_args.jitter.isNone \/ ppc_args.jitter.v >= 0)

\* C7: a plot_ppc call whose num_pp_samples is an integer above
\* chains x draws, an integer below 1 or not an integer fails, with no
\* replicate index sampled and no panel rendered; the failure is the
\* num_pp_samples error (a TypeError) whenever the arguments checked before
\* it are acceptable.
C7_InsufficientSamplesRejected ==
    LET n == ppc_args.num_pp_samples
        bad == \/ n.tag = "float"
               \/ n.tag = "int" /\ (n.v > PpcTotal \/ n.v < 1)
    IN  (ppc_call.called /\ bad)
            => /\ ppc_call.exc # "none"
               /\ ppc_call.pp_sample_ix = <<>>
               /\ ppc_call.rows = <<>>
               /\ ppc_call.panels = 0
               /\ ppc_call.drawn = 0
               /\ PpcEarlyChecksPass
                    => /\ ppc_call.exc = "TypeError"
                       /\ ppc_call.why = "num_pp_samples"

\* C7 witness: a call asking for one sample more than there are has failed
\* on num_pp_samples.
C7_Witness ==
    /\ ppc_call.called
    /\ ppc_args.num_pp_samples = PyInt(PpcTotal + 1)
    /\ PpcTotal >= 2
    /\ ppc_call.why = "num_pp_samples"

\* C8: a call that is accepted selects exactly k replicate indices, k being
\* the num_pp_samples given (or its default), pairwise distinct and each in
\* 0..total-1; each picks one sample <<chain, draw>> of the replicate array,
\* no sample twice; and with k = total every sample is picked exactly once.
C8_DistinctReplicateIndices ==
    (ppc_call.called /\ ppc_call.exc = "none")
        => LET ix == ppc_call.pp_sample_ix
               rows == ppc_call.rows
               k == ppc_call.num_pp_samples
               samples == (0..(ppc_data.chains - 1)) \X (0..(ppc_data.draws - 1))
           IN  /\ ppc_args.num_pp_samples.tag = "int"
                    => k = ppc_args.num_pp_samples.v
               /\ 1 <= k /\ k <= PpcTotal
               /\ Len(ix) = k
               /\ Len(rows) = k
               /\ \A i \in 1..k : ix[i] \in 0..(PpcTotal - 1)
               /\ \A i, j \in 1..k : i # j => ix[i] # ix[j]
               /\ \A i \in 1..k : rows[i] \in samples
               /\ \A i, j \in 1..k : i # j => rows[i] # rows[j]
               /\ k = PpcTotal
                    => \A smp \in samples :
                          Cardinality({i \in 1..k : rows[i] = smp}) = 1

\* C8 witness: an accepted call that asked for all of four or more samples.
C8_Witness ==
    /\ ppc_call.called
    /\ ppc_call.exc = "none"
    /\ ppc_args.num_pp_samples = PyInt(PpcTotal)
    /\ PpcTotal >= 4

\* C9: a call without num_pp_samples (its earlier arguments acceptable) is
\* accepted and uses min(5, total) samples when its kind is the scatter kind
\* and it is not animated, and all the samples otherwise.
C9_DefaultNumPpSamples ==
    (ppc_call.called /\ ppc_args.num_pp_samples.tag = "none"
                     /\ PpcEarlyChecksPass)
        => /\ ppc_call.exc = "none"
           /\ ppc_call.num_pp_samples =
                (IF lower(ppc_args.kind) = s_scatter /\ ~ppc_args.animated
                 THEN (IF 5 < PpcTotal THEN 5 ELSE PpcTotal)
                 ELSE PpcTotal)

\* C10: a plot_ppc call that repeats the previous call (same data, same
\* arguments) with a random_seed that is not None selects the replicate
\* indices the previous call selected, and fails if and as it failed,
\* whatever state the global random generator was left in between.
C10_SeededCallsRepeat ==
    [][(ppc_calls >= 1 /\ ppc_calls' = ppc_calls + 1
                       /\ ~ppc_args.random_seed.isNone)
          => /\ ppc_call'.pp_sample_ix = ppc_call.pp_sample_ix
             /\ ppc_call'.exc = ppc_call.exc]_vars

\* C10 witness: a seeded call has been repeated, other random draws having
\* been made between the two calls, and has selected two or more indices.
C10_Witness ==
    /\ ppc_calls >= 2
    /\ ~ppc_args.random_seed.isNone
    /\ ppc_call.draws_before
    /\ ppc_call.exc = "none"
    /\ Len(ppc_call.pp_sample_ix) >= 2

(***************************************************************************)
(* Claims about plot_joint (checked under SpecJoint).                      *)
(***************************************************************************)
\* The number of (variable, selection) pairs that the coordinate-restricted
\* data yields for var_names: one per variable without a school dimension,
\* one per selected school for theta.
RECURSIVE JointPlotterCount(_, _)
JointPlotterCount(var_names, nschools) ==
    IF var_names = <<>>
    THEN 0
    ELSE (IF Head(var_names) = "theta" THEN nschools ELSE 1)
         + JointPlotterCount(Tail(var_names), nschools)

JointCount ==
    JointPlotterCount(VarNames(joint_args.var_names),
                      IF joint_args.coords.isNone THEN Len(SchoolLabels)
                      ELSE Len(joint_args.coords.v))

\* C11: a plot_joint call with a valid kind draws only when the data yields
\* exactly two plotters; with any other count it fails with the exception of
\* the count check, no figure or axes is created, the axes of the caller are
\* as they were, and so is the caller's marginal_kwargs.
C11_TwoPlottersRequired ==
    (joint_call.called /\ JointKindValid(joint_args.kind)) =>
        /\ (JointCount # 2 =>
                /\ joint_call.exc = "Exception"
                /\ joint_call.why = "plotters"
                /\ ~joint_call.fig_created
                /\ joint_call.axes = <<>>
                /\ \A i \in DOMAIN caller_ax : caller_ax[i] \in {<<>>, <<"old">>}
                /\ caller_marginal_kwargs = joint_args.marginal_kwargs)
        /\ (joint_call.exc = "none" => JointCount = 2)

\* A call with three plotters was made and rejected.
C11_Witness ==
    /\ joint_call.called
    /\ JointKindValid(joint_args.kind)
    /\ JointCount = 3
    /\ joint_call.exc = "Exception"
    /\ ~joint_args.ax.isNone

(***************************************************************************)
(* Claims about the bokeh trace plot (checked under SpecTrace).            *)
(***************************************************************************)
TraceLimitExceeded ==
    /\ trace_rc.tag # "none"
    /\ Len(trace_call.all_plotters) > trace_rc.v

\* C12: a trace plot call whose panels exceed plot.max_subplots does not
\* fail on that account: it warns and goes on with the first max_subplots
\* panels in iteration order; a call whose panels do not exceed the limit,
\* or whose limit is None, goes on with all the panels and does not warn.
C12_LimitTruncatesWithWarning ==
    trace_call.called =>
        IF TraceLimitExceeded
        THEN /\ trace_call.why # "warnings"
             /\ trace_call.warned
             /\ trace_call.plotters = SubSeq(trace_call.all_plotters, 1, trace_rc.v)
        ELSE /\ ~trace_call.warned
             /\ trace_call.plotters = trace_call.all_plotters

\* C13: a trace plot call with legend=False gives no trace line and no
\* distribution a "chain k" label; a call with legend=True labels the trace
\* line of every chain k "chain k".
C13_LegendDecidesLabels ==
    trace_call.called =>
        \A i \in DOMAIN trace_call.panels :
            LET panel == trace_call.panels[i]
            IN  /\ \A j \in DOMAIN panel.lines :
                    panel.lines[j].label =
                        IF trace_args.legend
                        THEN ChainLabel(panel.lines[j].chain)
                        ELSE NoLabel
                /\ ~trace_args.legend =>
                        \A j \in DOMAIN panel.dists : panel.dists[j].label = NoLabel

\* C14: every panel of a completed trace plot call has one trace line per
\* chain, chain k in colour k; it has one distribution per chain, chain k in
\* colour k, when combined is False, and one distribution of the pooled
\* values in colour C when combined is True; every colour is in the colour
\* list; and a call with at least one panel within the limit completes.
C14_ChainsAndCombined ==
    LET C == trace_args.chains
    IN  (trace_call.called /\ trace_call.why \notin {"warnings", "figsize"}) =>
            /\ trace_call.exc = "none"
            /\ Len(trace_call.panels) = Len(trace_call.plotters)
            /\ \A i \in DOMAIN trace_call.panels :
                LET panel == trace_call.panels[i]
                IN  /\ Len(panel.lines) = C
                    /\ \A j \in DOMAIN panel.lines :
                            /\ panel.lines[j].chain = j - 1
                            /\ panel.lines[j].color = j - 1
                    /\ \A j \in DOMAIN panel.dists :
                            panel.dists[j].color < trace_call.ncolors
                    /\ IF trace_args.combined
                       THEN /\ Len(panel.dists) = 1
                            /\ panel.dists[1].data = <<"pooled">>
                            /\ panel.dists[1].color = C
                       ELSE /\ Len(panel.dists) = C
                            /\ \A j \in DOMAIN panel.dists :
                                    /\ panel.dists[j].data = ChainLabel(j - 1)
                                    /\ panel.dists[j].color = j - 1

(***************************************************************************)
(* Claims about the panels and the animation of plot_ppc (checked under    *)
(* SpecPanels).                                                            *)
(***************************************************************************)
\* C15: when a plot_ppc call has failed on an argument, on the number of
\* the axes or in the iteration of a panel, nothing was drawn on any of the
\* target axes.
C15_NoPartialRendering ==
    (ppc_call.called /\ ppc_call.exc # "none" /\ ppc_call.why # "animate") =>
        \A i \in DOMAIN ppc_call.axes : ppc_call.axes[i] = <<>>

\* C17: the animation of an animated call is given the frames 0, 1, ...,
\* num_pp_samples - 1 in this order, and after the k-th frame of a run was
\* drawn the animated line shows the k-th selected replicate, the sample
\* pp_sample_ix[k - 1] of the posterior predictive variable.
C17_FramesShowTheirReplicate ==
    ppc_call.animation.made =>
        LET frames == ppc_call.animation.frames
        IN  /\ Len(frames) = ppc_call.num_pp_samples
            /\ \A k \in DOMAIN frames : frames[k] = k - 1
            /\ anim_cursor >= 1 =>
                    anim_lines[ppc_call.animation.panel] =
                        <<ppc_call.pp_sample_ix[anim_cursor] \div ppc_data.draws,
                          ppc_call.pp_sample_ix[anim_cursor] % ppc_data.draws>>

\* The third frame of a run was drawn and its replicate is not the first.
C17_Witness ==
    /\ ppc_call.animation.made
    /\ anim_cursor = 3
    /\ ppc_call.pp_sample_ix[3] # ppc_call.pp_sample_ix[1]
    /\ anim_lines[ppc_call.animation.panel] # LineFirst(ppc_call.rows)

\* C19: a plot_ppc call that passes the validation of kind completes with
\* observed data drawn on every panel, unless a panel fails.
C19_AcceptedKindIsRendered ==
    (ppc_call.called /\ PpcEarlyChecksPass /\ ppc_call.panels > 0
        /\ ppc_call.why \notin {"axes", "figure", "drawstyle", "density"})
        => /\ ppc_call.exc = "none"
           /\ ppc_call.drawn = ppc_call.panels

\* C20: in an animated call every frame update and every init act on the
\* animated line of every panel: after init all of them are empty, after the
\* k-th frame all of them show the k-th selected replicate.
C20_EveryPanelAnimated ==
    (ppc_call.animation.made /\ anim_cursor >= 0) =>
        \A i \in 1..ppc_call.panels :
            anim_lines[i] = IF anim_cursor = 0 THEN LineEmpty
                            ELSE ppc_call.rows[anim_cursor]

(***************************************************************************)
(* Claims about the objects of the caller of plot_ppc (checked under       *)
(* SpecObjects).                                                           *)
(***************************************************************************)
\* C16: a plot_ppc call leaves the coords and animation_kwargs objects of
\* the caller and the state of the global random generator as they were, and
\* a second call with the same objects selects the coordinates that the
\* first selected.
C16_NoStateCrossesCalls ==
    [][(ppc_calls' = ppc_calls + 1) =>
            /\ caller_coords' = caller_coords
            /\ caller_animation_kwargs' = caller_animation_kwargs
            /\ rng_state' = rng_state
            /\ (ppc_calls >= 1 /\ ppc_call.why \notin {"kind", "num_pp_samples"})
                    => ppc_call'.selected = ppc_call.selected]_vars

\* C18: a plot_ppc call whose coords asks for a value that is no label of
\* the dimension fails at the selection; a call without coords keeps all
\* the values of the dimension.
C18_UnknownCoordinateFails ==
    (ppc_call.called /\ ppc_calls = 1 /\ PpcEarlyChecksPass) =>
        /\ (~ppc_args.coords.isNone /\ ppc_args.coords.key = "school"
            /\ \E j \in DOMAIN ppc_args.coords.v :
                    \A i \in DOMAIN PpcLabels : ppc_args.coords.v[j] # PpcLabels[i])
                => /\ ppc_call.exc # "none"
                   /\ ppc_call.why = "coords"
        /\ ppc_args.coords.isNone
                => ppc_call.selected = [i \in DOMAIN PpcLabels |-> i - 1]

(***************************************************************************)
(* SpecPairs                                                               *)
(***************************************************************************)
\* C21: in every plot_ppc call that renders its panels, pp_plotters is as
\* long as obs_plotters, and pp_plotters[i] is of the posterior predictive
\* variable that data_pairs gives for the variable of obs_plotters[i],
\* whatever flatten, flatten_pp and coords are.
C21_PlottersArePaired ==
    (ppc_call.called /\ ppc_call.panels > 0 /\ ppc_call.drawn > 0) =>
        /\ Len(ppc_call.pp_plotters) = Len(ppc_call.obs_plotters)
        /\ \A i \in DOMAIN ppc_call.obs_plotters :
              /\ i \in DOMAIN ppc_call.pp_plotters
              /\ ppc_call.pp_plotters[i].var =
                    DataPairsGet(ppc_args.data_pairs, ppc_call.obs_plotters[i].var)

(***************************************************************************)
(* SpecTrace: the data of the panels                                       *)
(***************************************************************************)
\* The schools whose values a panel of the selection sel is to show in one
\* line: the school of the selection, or none for a variable without the
\* dimension.
PanelSchools(panel) ==
    IF VarDims(panel.var) = <<>> THEN {<<>>}
    ELSE IF panel.sel # <<>> THEN {panel.sel}
    ELSE {<<sc>> : sc \in {get_coords(trace_args.coords)[i] :
                               i \in DOMAIN get_coords(trace_args.coords)}}

\* C22: every panel of the bokeh trace plot draws the values of its own
\* triple, once each: per chain, one trace line and one distribution for
\* the selection of the panel, or one per sub-dimension in a compact panel,
\* each of the variable of the panel at that selection alone.
C22_PanelDrawsOwnData ==
    (trace_call.called /\ trace_call.exc = "none") =>
        \A p \in DOMAIN trace_call.panels :
            LET panel == trace_call.panels[p]
            IN  /\ \A j \in DOMAIN panel.lines :
                      /\ panel.lines[j].y.of = "variable"
                      /\ panel.lines[j].y.var = panel.var
                      /\ panel.lines[j].y.schools \in PanelSchools(panel)
                /\ \A j \in DOMAIN panel.dists :
                      /\ panel.dists[j].values.var = panel.var
                      /\ panel.dists[j].values.schools \in PanelSchools(panel)
                /\ \A k \in 0..(trace_args.chains - 1), sc \in PanelSchools(panel) :
                      /\ Cardinality({j \in DOMAIN panel.lines :
                                        /\ panel.lines[j].chain = k
                                        /\ panel.lines[j].y.schools = sc}) = 1
                      /\ Cardinality({j \in DOMAIN panel.dists :
                                        /\ panel.dists[j].values.chain = k
                                        /\ panel.dists[j].values.schools = sc}) = 1

(***************************************************************************)
(* SpecTrace: the marker entry of trace_kwargs                             *)
(***************************************************************************)
\* The markers that the trace_kwargs of the caller asks for: none when it
\* holds marker=False, markers otherwise.
MarkerAsked ==
    \/ trace_args.trace_kwargs.isNone
    \/ "marker" \notin DOMAIN trace_args.trace_kwargs.d
    \/ trace_args.trace_kwargs.d["marker"] = "True"

\* C23: over all the _plot_chains_bokeh calls of one _plot_trace_bokeh call
\* the marker entry of trace_kwargs decides the markers of every panel
\* alike, markers everywhere when it is absent or true and nowhere when it
\* is False, and no line is given a marker keyword.
C23_MarkerAppliesToEveryPanel ==
    trace_call.called =>
        \A p \in DOMAIN trace_call.panels :
            \A j \in DOMAIN trace_call.panels[p].lines :
                /\ trace_call.panels[p].lines[j].marker = MarkerAsked
                /\ "marker" \notin trace_call.panels[p].lines[j].kwargs

(***************************************************************************)
(* SpecColumns                                                             *)
(***************************************************************************)
\* C24: the loop that names the draw column ends, after at most one step
\* per plotted variable name, with a name that begins with "draw" and is
\* the name of no plotted variable; the columns of every chain are then
\* one column per plotted variable, still holding that variable, and the
\* draw column.
C24_DrawNameIsFresh ==
    (trace_call.called /\ trace_call.draw_name # "") =>
        LET names == PlottedNames(trace_call.plotters)
            name == trace_call.draw_name
        IN  /\ Len(name) >= 4
            /\ SubSeq(name, 1, 4) = "draw"
            /\ name \notin names
            /\ Len(name) - 4 <= Cardinality(names)
            /\ DOMAIN trace_call.cds_data = 0..(trace_args.chains - 1)
            /\ \A chain_idx \in DOMAIN trace_call.cds_data :
                  LET cds == trace_call.cds_data[chain_idx]
                  IN  /\ DOMAIN cds = names \cup {name}
                      /\ Cardinality(DOMAIN cds) = Cardinality(names) + 1
                      /\ cds[name].of = "draw"
                      /\ \A key \in names :
                            /\ cds[key].of = "variable"
                            /\ cds[key].var = key
                            /\ cds[key].chain = chain_idx

\* A call whose plotted variables are named draw and draww, so that the loop
\* runs twice.
C24_Witness ==
    /\ trace_call.called
    /\ {"draw", "draww"} \subseteq PlottedNames(trace_call.plotters)
    /\ trace_call.draw_name = "drawww"
    /\ trace_args.chains = 2

====
